---- MODULE Spec2Model ----
(***************************************************************************)
(* A model of minerals_supply_scenarios: the S&P dataset importer          *)
(* (data_collection.py), the MetalSupplyScenarios constructor pipeline     *)
(* (supply_scenarios.py) and the cutoff helper of utils.py.                *)
(*                                                                         *)
(* Conventions.                                                            *)
(*  - A table cell is a sequence of length 0 or 1: << >> is a missing      *)
(*    value (NaN, an empty spreadsheet cell), <<v>> holds the value v.     *)
(*  - A text whose characters matter (substring search, splitting) is a    *)
(*    sequence of one-character strings.                                   *)
(*  - Years are small integers standing for equal-width year numbers;      *)
(*    the column "Production <y>" and the label "<y>" are both keyed y.    *)
(***************************************************************************)
EXTENDS Integers, Sequences, FiniteSets, TLC

VARIABLES
    pc,                     \* position in the run
    error,                  \* the error that aborted the run ("" when none)
    timeframe,              \* <<start, end, step>>
    \* ---- data_collection.get_sp_dataset
    raw_export,             \* [header |-> Seq(<<h0, h1>>), rows |-> Seq(Seq(cell))]
    sp_dataset,             \* the table get_sp_dataset returns
    \* ---- supply_scenarios.MetalSupplyScenarios
    commodity,              \* self.commodity
    specifics,              \* kwargs["specifics"]: filter key -> list (<< >>: not given)
    exclude,                \* kwargs["exclude"]: Seq(<<column, list>>) (<< >>: not given)
    data_gaps,              \* fill_data_gaps.yaml: commodity -> project id -> overrides
    scenarios,              \* self.scenarios: Seq([name, stages]) in document order
    harmonize_data,         \* production_harmonization.yaml: commodity -> deposit -> rule
    sp_dataset_raw,         \* self.sp_dataset_raw: Seq(row), one row per project
    production_years,       \* self.production_years, as the years in column order
    production_time_steps,  \* self.production_time_steps, likewise
    sp_dataset_updated,     \* self.sp_dataset_updated
    scenario_data,          \* self.scenario_data
    premise_scenario_data,  \* self.premise_scenario_data
    processing_report,      \* self.processing_report (<< >> before it is made)
    \* ---- utils.add_cutoff_to_df
    df,                     \* the table passed in: [width, rows |-> Seq([label, values])]
    cutoff,                 \* the cutoff passed in
    NEW_ROW_NAME,           \* the label passed in
    df_returned             \* the table returned

importer_vars == <<raw_export, sp_dataset>>

config_vars == <<commodity, specifics, exclude, data_gaps, scenarios, harmonize_data>>

builder_vars == <<sp_dataset_raw, production_years, production_time_steps,
                  sp_dataset_updated, scenario_data, premise_scenario_data,
                  processing_report>>

utils_vars == <<df, cutoff, NEW_ROW_NAME, df_returned>>

vars == <<pc, error, timeframe, importer_vars, config_vars, builder_vars, utils_vars>>

(***************************************************************************)
(* Generic helpers                                                         *)
(***************************************************************************)
NaN == << >>

Some(v) == <<v>>

Range(s) == {s[i] : i \in DOMAIN s}

\* The elements of a set of integers in ascending order.
RECURSIVE SeqOfSet(_)
SeqOfSet(S) ==
    IF S = {} THEN << >>
    ELSE LET m == CHOOSE x \in S : \A y \in S : x <= y
         IN  <<m>> \o SeqOfSet(S \ {m})

\* The subsequence of s at the positions in I, in order.
Pick(s, I) == [k \in 1..Cardinality(I) |-> s[SeqOfSet(I)[k]]]

\* The parts of the state a run of one component leaves untouched.
ImporterIdle == raw_export = << >> /\ sp_dataset = << >>

UtilsIdle == df = << >> /\ cutoff = 0 /\ NEW_ROW_NAME = "" /\ df_returned = << >>

BuilderIdle ==
    /\ commodity = "" /\ specifics = << >> /\ exclude = << >> /\ data_gaps = << >>
    /\ scenarios = << >> /\ harmonize_data = << >>
    /\ sp_dataset_raw = << >> /\ production_years = << >>
    /\ production_time_steps = << >> /\ sp_dataset_updated = << >>
    /\ scenario_data = << >> /\ premise_scenario_data = << >>
    /\ processing_report = << >>

(***************************************************************************)
(* data_collection.py                                                      *)
(***************************************************************************)

\* The schema mapping document (metal_supply_data_format.yaml), in document
\* order: the canonical attribute and its "S&P" source label ("" when the
\* attribute has no "S&P" key).
data_formats ==
    << [attr |-> "Project ID",          sp |-> "PROP_ID"],
       [attr |-> "Country",             sp |-> "COUNTRY_NAME"],
       [attr |-> "Production",          sp |-> "PRODUCTION"],
       [attr |-> "Production Capacity", sp |-> "CAPACITY"],
       [attr |-> "Comment",             sp |-> ""] >>

\* The attributes that have an "S&P" key, in document order.
sp_data_corresp == SelectSeq(data_formats, LAMBDA f : f.sp # "")

SpLabel(attr) ==
    sp_data_corresp[CHOOSE i \in DOMAIN sp_data_corresp : sp_data_corresp[i].attr = attr].sp

\* range(timeframe[0], timeframe[1] + 1)
years_list(tf) == tf[1]..tf[2]

\* A column name: a base text and, for a per-year column, the year it is
\* suffixed with (0: no year in the name).  "PRODUCTION_<y>Y" is
\* ColName("PRODUCTION", y), "Production <y>" is ColName("Production", y).
ColName(base, year) == [base |-> base, year |-> year]

\* A number of the export: num / den.
Num(n) == [num |-> n, den |-> 1]

KtDivisor == 1000

\* column /= 1000 : missing cells stay missing.
DivideCell(c) ==
    IF c = NaN THEN NaN ELSE Some([num |-> c[1].num, den |-> c[1].den * KtDivisor])

DivideColumn(col) ==
    [col EXCEPT !.cells = [i \in DOMAIN col.cells |-> DivideCell(col.cells[i])]]

\* A variant that keeps zeros (no replace(0, np.nan)).
ReplaceZero_KeepZero(c) == c

\* pd.read_excel(...).replace(0, np.nan)
ReplaceZero(c) == IF c = Some(Num(0)) THEN NaN ELSE c

ReadExcel(raw) ==
    [i \in DOMAIN raw.rows |->
        [j \in DOMAIN raw.rows[i] |-> ReplaceZero(raw.rows[i][j])]]

\* df.dropna(axis=0, how='all'); reset_index: the rows left after the two
\* header rows, which are never empty.
DropEmptyRows(rows) == SelectSeq(rows, LAMBDA r : \E j \in DOMAIN r : r[j] # NaN)

\* The header loop: a column whose second header cell is "<y>Y" for a year
\* of the timeframe is named "<first header>_<y>Y", any other column is
\* named by its first header cell.  h[2] = 0 stands for a second header
\* cell that is no year label.
ResolveHeader(h, tf) ==
    IF h[2] \in years_list(tf) THEN ColName(h[1], h[2]) ELSE ColName(h[1], 0)

\* The frame after the header rows are resolved and dropped: one record per
\* column, its name and its cells by row.
ResolvedFrame(raw, tf) ==
    LET rows == DropEmptyRows(ReadExcel(raw))
    IN  [j \in DOMAIN raw.header |->
            [name  |-> ResolveHeader(raw.header[j], tf),
             cells |-> [i \in DOMAIN rows |-> rows[i][j]]]]

HasColumn(frame, name) == \E j \in DOMAIN frame : frame[j].name = name

\* df.drop(columns=[name])
DropColumns(frame, name) == SelectSeq(frame, LAMBDA c : c.name # name)

\* df.rename(columns={from: to})
RenameColumn(frame, from, to) ==
    [j \in DOMAIN frame |->
        IF frame[j].name = from THEN [frame[j] EXCEPT !.name = to] ELSE frame[j]]

\* df[name] = value  (a new column is appended, an existing one overwritten)
SetColumn(frame, name, cell) ==
    LET n == IF frame = << >> THEN 0 ELSE Len(frame[1].cells)
        new == [name |-> name, cells |-> [i \in 1..n |-> cell]]
    IN  IF HasColumn(frame, name)
        THEN [j \in DOMAIN frame |-> IF frame[j].name = name THEN new ELSE frame[j]]
        ELSE Append(frame, new)

\* df[name] /= 1000
DivideNamed(frame, name) ==
    [j \in DOMAIN frame |->
        IF frame[j].name = name THEN DivideColumn(frame[j]) ELSE frame[j]]

\* One year of the "Production" branch of the attribute loop.
ProductionYear(frame, year) ==
    LET df_col_name   == ColName(SpLabel("Production"), year)
        prod_col_name == ColName("Production", year)
        renamed == RenameColumn(frame, df_col_name, prod_col_name)
        present == IF HasColumn(renamed, prod_col_name) THEN renamed
                   ELSE SetColumn(renamed, prod_col_name, NaN)
    IN  DivideNamed(present, prod_col_name)

RECURSIVE ProductionYears(_, _)
ProductionYears(frame, years) ==
    IF years = << >> THEN frame
    ELSE ProductionYears(ProductionYear(frame, Head(years)), Tail(years))

\* A variant that also demands every year's production column.
RECURSIVE AttributeLoop_ProductionMandatory(_, _, _)
AttributeLoop_ProductionMandatory(frame, i, tf) ==
    IF i > Len(sp_data_corresp) THEN [ok |-> TRUE, frame |-> frame, attr |-> ""]
    ELSE LET col == sp_data_corresp[i]
         IN  IF col.attr = "Production"
             THEN IF \E y \in years_list(tf) : ~HasColumn(frame, ColName(col.sp, y))
                  THEN [ok |-> FALSE, frame |-> << >>, attr |-> col.attr]
                  ELSE AttributeLoop_ProductionMandatory(
                           ProductionYears(frame, SeqOfSet(years_list(tf))), i + 1, tf)
             ELSE IF ~HasColumn(frame, ColName(col.sp, 0))
                  THEN [ok |-> FALSE, frame |-> << >>, attr |-> col.attr]
                  ELSE AttributeLoop_ProductionMandatory(
                           RenameColumn(frame, ColName(col.sp, 0), ColName(col.attr, 0)),
                           i + 1, tf)

\* The attribute loop from attribute i on.  The result is the frame, or the
\* attribute the ValueError names.
RECURSIVE AttributeLoop(_, _, _)
AttributeLoop(frame, i, tf) ==
    IF i > Len(sp_data_corresp) THEN [ok |-> TRUE, frame |-> frame, attr |-> ""]
    ELSE LET col == sp_data_corresp[i]
         IN  IF col.attr = "Production"
             THEN AttributeLoop(ProductionYears(frame, SeqOfSet(years_list(tf))), i + 1, tf)
             ELSE IF ~HasColumn(frame, ColName(col.sp, 0))
                  THEN [ok |-> FALSE, frame |-> << >>, attr |-> col.attr]
                  ELSE AttributeLoop(RenameColumn(frame, ColName(col.sp, 0),
                                                  ColName(col.attr, 0)), i + 1, tf)

\* Position of a base text in the lexicographic order of column names
\* (upper case before lower case, as in the sort of production_cols).
BaseRank(base) ==
    CASE base = "CAPACITY"     -> 1
      [] base = "COUNTRY_NAME" -> 2
      [] base = "PRODUCTION"   -> 3
      [] base = "PROP_ID"      -> 4
      [] base = "Production"   -> 5
      [] OTHER                 -> 6

NameBefore(a, b) ==
    \/ BaseRank(a.base) < BaseRank(b.base)
    \/ BaseRank(a.base) = BaseRank(b.base) /\ a.year < b.year

RECURSIVE SortColumns(_)
SortColumns(cols) ==
    IF cols = << >> THEN << >>
    ELSE LET m == CHOOSE j \in DOMAIN cols :
                      \A k \in DOMAIN cols : k = j \/ ~NameBefore(cols[k].name, cols[j].name)
         IN  <<cols[m]>> \o SortColumns(SelectSeq(cols, LAMBDA c : c # cols[m]))

\* production_cols = sorted(columns naming a year of the timeframe);
\* df = df[other_cols + production_cols]
ReorderColumns(frame, tf) ==
    LET isProd(c) == c.name.year \in years_list(tf)
    IN  SelectSeq(frame, LAMBDA c : ~isProd(c)) \o SortColumns(SelectSeq(frame, isProd))

\* The body of get_sp_dataset from the attribute loop's result on.
FinishDataset(frame, tf) ==
    LET cap   == DivideNamed(frame, ColName("Production Capacity", 0))
        unit  == SetColumn(cap, ColName("Production Unit", 0), Some([text |-> "kt/year"]))
        idcol == unit[CHOOSE j \in DOMAIN unit : unit[j].name = ColName("Project ID", 0)]
    IN  [index   |-> [i \in DOMAIN idcol.cells |-> idcol.cells[i][1].num],
         columns |-> ReorderColumns(DropColumns(unit, ColName("Project ID", 0)), tf)]

\* get_sp_dataset(dataset_path, timeframe)
GetSpDatasetResult(raw, tf) ==
    LET resolved == ResolvedFrame(raw, tf)
        dropped  == IF HasColumn(resolved, ColName(SpLabel("Production"), 0))
                    THEN DropColumns(resolved, ColName(SpLabel("Production"), 0))
                    ELSE resolved
        looped   == AttributeLoop(dropped, 1, tf)
    IN  IF looped.ok
        THEN [ok |-> TRUE, attr |-> "", df |-> FinishDataset(looped.frame, tf)]
        ELSE [ok |-> FALSE, attr |-> looped.attr, df |-> << >>]

GetSpDataset ==
    /\ pc = "import"
    /\ LET r == GetSpDatasetResult(raw_export, timeframe)
       IN  /\ pc' = IF r.ok THEN "imported" ELSE "failed"
           /\ error' = IF r.ok THEN "" ELSE r.attr
           /\ sp_dataset' = r.df
    /\ UNCHANGED <<utils_vars, timeframe, raw_export, config_vars, builder_vars>>


(***************************************************************************)
(* The importer's inputs: an export holds any selection of the columns     *)
(* below, over two data rows; the second row may be entirely empty, and    *)
(* holds one value in all its numeric cells otherwise.                     *)
(***************************************************************************)
MaxRawValue == 1

RawCells == {NaN} \cup {Some(Num(v)) : v \in 0..MaxRawValue}

\* <<first header cell, second header cell>>: 0 is a second header that is
\* no year label, y stands for "<y>Y".
ImportColumns ==
    << <<"PROP_ID", 0>>, <<"COUNTRY_NAME", 0>>, <<"CAPACITY", 0>>,
       <<"PRODUCTION", 0>>, <<"PRODUCTION", 1>>, <<"PRODUCTION", 2>>,
       <<"PRODUCTION", 3>>, <<"COUNTRY_NAME", 2>> >>

ImportTimeframes == {<<2, 3, 1>>, <<2, 2, 1>>}

ImportIds == <<101, 102>>

ImportRow(header, id, cap, p2, p3) ==
    [j \in DOMAIN header |->
        CASE header[j][1] = "PROP_ID"       -> Some(Num(id))
          [] header[j][1] = "COUNTRY_NAME"  -> Some([text |-> "Chile"])
          [] header[j][1] = "CAPACITY"      -> cap
          [] header[j] = <<"PRODUCTION", 2>> -> p2
          [] header[j] = <<"PRODUCTION", 3>> -> p3
          [] OTHER                          -> Some(Num(1))]

EmptyRow(header) == [j \in DOMAIN header |-> NaN]

InitImport ==
    /\ pc = "import"
    /\ error = ""
    /\ timeframe \in ImportTimeframes
    /\ \E I \in SUBSET DOMAIN ImportColumns :
       \E c1, c2, c3, d \in RawCells :
       \E blank \in BOOLEAN :
          LET header == Pick(ImportColumns, I)
          IN  raw_export =
                [header |-> header,
                 rows   |-> << ImportRow(header, ImportIds[1], c1, c2, c3),
                               IF blank THEN EmptyRow(header)
                               ELSE ImportRow(header, ImportIds[2], d, d, d) >>]
    /\ sp_dataset = << >>
    /\ BuilderIdle
    /\ UtilsIdle

NextImport == GetSpDataset

SpecImport == InitImport /\ [][NextImport]_vars


(***************************************************************************)
(* Properties of the importer                                              *)
(***************************************************************************)
\* The mandatory attributes: those with a source label, "Production" apart.
MandatoryAttributes ==
    {f.attr : f \in {g \in Range(data_formats) : g.sp # "" /\ g.attr # "Production"}}

SourceLabel(attr) == (CHOOSE f \in Range(data_formats) : f.attr = attr).sp

\* After header resolution no column carries the attribute's source label:
\* every column headed by the label has a year label of the timeframe below.
AbsentAfterResolution(attr) ==
    \A j \in DOMAIN raw_export.header :
        raw_export.header[j][1] = SourceLabel(attr)
            => raw_export.header[j][2] \in timeframe[1]..timeframe[2]

RawProductionColumns(y) ==
    {j \in DOMAIN raw_export.header : raw_export.header[j] = <<"PRODUCTION", y>>}

ImportedColumns(name) ==
    {j \in DOMAIN sp_dataset.columns : sp_dataset.columns[j].name = name}

\* C8: the import fails, with an error naming an absent attribute, exactly
\* when the source column of some mandatory non-"Production" attribute is
\* absent after header resolution; a year of the timeframe without a raw
\* production column never fails the import, and its "Production <year>"
\* column exists with every value missing.
C8_MissingColumnValidation ==
    pc # "import" =>
        /\ (pc = "failed") <=> (\E a \in MandatoryAttributes : AbsentAfterResolution(a))
        /\ pc = "failed" => error \in MandatoryAttributes /\ AbsentAfterResolution(error)
        /\ pc = "imported" =>
             \A y \in timeframe[1]..timeframe[2] :
                RawProductionColumns(y) = {} =>
                    /\ Cardinality(ImportedColumns(ColName("Production", y))) = 1
                    /\ \A j \in ImportedColumns(ColName("Production", y)) :
                         \A k \in DOMAIN sp_dataset.columns[j].cells :
                            sp_dataset.columns[j].cells[k] = NaN

\* The export has a column headed by Country's source label, but with a year
\* label below it, and the import failed naming "Country".
C8_Witness ==
    /\ pc = "failed"
    /\ error = "Country"
    /\ \E j \in DOMAIN raw_export.header : raw_export.header[j][1] = "COUNTRY_NAME"
    /\ RawProductionColumns(timeframe[1]) = {}

\* The raw cell of data row i under the column headed <<label, y>>, missing
\* when the export has no such column.
RawCell(i, label, y) ==
    IF \E j \in DOMAIN raw_export.header : raw_export.header[j] = <<label, y>>
    THEN raw_export.rows[i][CHOOSE j \in DOMAIN raw_export.header :
                                raw_export.header[j] = <<label, y>>]
    ELSE NaN

\* What the claim says a raw numeric cell is imported as.
ExpectedImport(raw) ==
    IF raw = NaN \/ raw[1].num = 0 THEN NaN
    ELSE Some([num |-> raw[1].num, den |-> 1000])

ImportedCell(name, k) ==
    sp_dataset.columns[CHOOSE j \in DOMAIN sp_dataset.columns :
                           sp_dataset.columns[j].name = name].cells[k]

\* C9: after a successful import every project of the export has one row;
\* in it "Production <year>", for every year of the timeframe, is missing
\* when the raw cell is empty or 0 and is V/1000 when the raw cell holds a
\* non-zero V; "Production Capacity" likewise; "Production Unit" is
\* "kt/year" on every row.
C9_ImportConversion ==
    pc = "imported" =>
        /\ \A i \in DOMAIN raw_export.rows :
              RawCell(i, "PROP_ID", 0) # NaN =>
                 /\ Cardinality({k \in DOMAIN sp_dataset.index :
                        sp_dataset.index[k] = RawCell(i, "PROP_ID", 0)[1].num}) = 1
                 /\ \A k \in DOMAIN sp_dataset.index :
                       sp_dataset.index[k] = RawCell(i, "PROP_ID", 0)[1].num =>
                          /\ \A y \in timeframe[1]..timeframe[2] :
                                /\ Cardinality(ImportedColumns(ColName("Production", y))) = 1
                                /\ ImportedCell(ColName("Production", y), k)
                                     = ExpectedImport(RawCell(i, "PRODUCTION", y))
                          /\ ImportedCell(ColName("Production Capacity", 0), k)
                                = ExpectedImport(RawCell(i, "CAPACITY", 0))
        /\ \A k \in DOMAIN sp_dataset.index :
              ImportedCell(ColName("Production Unit", 0), k) = Some([text |-> "kt/year"])

\* An import in which one raw production cell held a non-zero value and
\* another held a literal 0.
C9_Witness ==
    /\ pc = "imported"
    /\ \E i \in DOMAIN raw_export.rows : \E y \in timeframe[1]..timeframe[2] :
          /\ RawCell(i, "PRODUCTION", y) # NaN
          /\ RawCell(i, "PRODUCTION", y)[1].num # 0
    /\ \E i \in DOMAIN raw_export.rows : \E y \in timeframe[1]..timeframe[2] :
          RawCell(i, "PRODUCTION", y) = Some(Num(0))
    /\ \E i \in DOMAIN raw_export.rows : RawCell(i, "CAPACITY", 0) = Some(Num(0))


(***************************************************************************)
(* supply_scenarios.py: MetalSupplyScenarios                               *)
(*                                                                         *)
(* A project row is a function from column names to cells; "Project ID"    *)
(* holds the index value itself and "Production" holds the per-year cells  *)
(* of the "Production <year>" columns.                                     *)
(***************************************************************************)

\* a occurs in b as a contiguous run of characters.
IsSubstring(a, b) ==
    \E i \in 0..(Len(b) - Len(a)) : \A k \in 1..Len(a) : b[i + k] = a[k]

\* A variant in which an empty list yields a pattern that matches nothing.
PatternAlternatives_EmptyMatchesNothing(list) == Range(list)

\* '|'.join(map(re.escape, list)): the texts the pattern matches literally.
\* The join of an empty list is the empty pattern, whose one alternative is
\* the empty text.
PatternAlternatives(list) == IF list = << >> THEN {<< >>} ELSE Range(list)

\* column.str.contains(pattern, na=False)
StrContains(cell, alternatives) ==
    cell # NaN /\ \E a \in alternatives : IsSubstring(a, cell[1])

\* column.isin(values)
IsIn(cell, values) == cell # NaN /\ cell[1] \in Range(values)

\* get_production_years: the "Production <year>" columns of the raw table,
\* one per year of the timeframe, sorted by year.
get_production_years(tf) == SeqOfSet(years_list(tf))

\* get_production_time_steps.  first_year is the text of a year and
\* timeframe[0] an integer, so "first_year != timeframe[0]" always holds:
\* the start year's entry is put first and steps is merged into it (a key
\* already present keeps its place).  With no year divisible by the step,
\* list(steps.values())[0] raises IndexError.
get_production_time_steps(years, tf) ==
    LET steps == SelectSeq(years, LAMBDA y : y % tf[3] = 0)
    IN  IF steps = << >> THEN [ok |-> FALSE, steps |-> << >>]
        ELSE [ok |-> TRUE,
              steps |-> <<tf[1]>> \o SelectSeq(steps, LAMBDA y : y # tf[1])]

GetProductionTimeSteps ==
    /\ pc = "construct"
    /\ LET years == get_production_years(timeframe)
           r == get_production_time_steps(years, timeframe)
       IN  /\ production_years' = years
           /\ production_time_steps' = r.steps
           /\ pc' = IF r.ok THEN "time_steps" ELSE "failed"
           /\ error' = IF r.ok THEN "" ELSE "IndexError"
           /\ sp_dataset_updated' = IF r.ok THEN sp_dataset_raw ELSE sp_dataset_updated
    /\ UNCHANGED <<utils_vars, processing_report, timeframe, importer_vars, config_vars, sp_dataset_raw,
                   scenario_data, premise_scenario_data>>

\* The overrides of one project, applied in the order listed.
RECURSIVE ApplyOverrides(_, _)
ApplyOverrides(row, overrides) ==
    IF overrides = << >> THEN row
    ELSE ApplyOverrides([row EXCEPT ![Head(overrides)[1]] = Head(overrides)[2]],
                        Tail(overrides))

\* fill_data_gaps
FillGaps(table, gaps, com) ==
    IF com \in DOMAIN gaps
    THEN [i \in DOMAIN table |->
            IF table[i]["Project ID"] \in DOMAIN gaps[com]
            THEN ApplyOverrides(table[i], gaps[com][table[i]["Project ID"]])
            ELSE table[i]]
    ELSE table

FillDataGaps ==
    /\ pc = "time_steps"
    /\ sp_dataset_updated' = FillGaps(sp_dataset_updated, data_gaps, commodity)
    /\ pc' = "gaps_filled"
    /\ UNCHANGED <<utils_vars, processing_report, error, timeframe, importer_vars, config_vars, sp_dataset_raw,
                   production_years, production_time_steps, scenario_data,
                   premise_scenario_data>>

\* The mask of the specifics selection for one row.
PassesSpecifics(row, sp) ==
    /\ "Deposit Type" \in DOMAIN sp =>
          StrContains(row["Deposit Type"], PatternAlternatives(sp["Deposit Type"]))
    /\ "Ore Minerals" \in DOMAIN sp =>
          StrContains(row["Ore Minerals"], PatternAlternatives(sp["Ore Minerals"]))
    /\ "Activity Status" \in DOMAIN sp =>
          StrContains(row["Activity Status"], PatternAlternatives(sp["Activity Status"]))
    /\ "Country" \in DOMAIN sp => IsIn(row["Country"], sp["Country"])

\* if kwargs.get("specifics"): ...
SelectSpecifics ==
    /\ pc = "gaps_filled"
    /\ sp_dataset_updated' =
          IF DOMAIN specifics # {}
          THEN SelectSeq(sp_dataset_updated, LAMBDA r : PassesSpecifics(r, specifics))
          ELSE sp_dataset_updated
    /\ pc' = "selected"
    /\ UNCHANGED <<utils_vars, processing_report, error, timeframe, importer_vars, config_vars, sp_dataset_raw,
                   production_years, production_time_steps, scenario_data,
                   premise_scenario_data>>

\* for e in kwargs["exclude"]: keep the rows whose value is not listed
RECURSIVE ExcludeLoop(_, _)
ExcludeLoop(table, excl) ==
    IF excl = << >> THEN table
    ELSE ExcludeLoop(SelectSeq(table, LAMBDA r : ~IsIn(r[Head(excl)[1]], Head(excl)[2])),
                     Tail(excl))

ExcludeProjects ==
    /\ pc = "selected"
    /\ sp_dataset_updated' = ExcludeLoop(sp_dataset_updated, exclude)
    /\ pc' = "excluded"
    /\ UNCHANGED <<utils_vars, processing_report, error, timeframe, importer_vars, config_vars, sp_dataset_raw,
                   production_years, production_time_steps, scenario_data,
                   premise_scenario_data>>

\* A variant that carries a value forward whatever the closure year.
CarryAllowed_IgnoreClosure(closure, year) == TRUE

\* project_closure_year >= int(current_year): false for a missing closure year
CarryAllowed(closure, year) == closure # NaN /\ closure[1] >= year

\* The walk of estimate_production_from_historical over one project's
\* columns from position i on; prev is NaN while prev_value is None.
RECURSIVE CarryForward(_, _, _, _, _)
CarryForward(prod, closure, years, i, prev) ==
    IF i > Len(years) THEN prod
    ELSE LET y == years[i]
         IN  IF prod[y] = NaN
             THEN IF prev # NaN /\ CarryAllowed(closure, y)
                  THEN CarryForward([prod EXCEPT ![y] = prev], closure, years, i + 1, prev)
                  ELSE CarryForward(prod, closure, years, i + 1, prev)
             ELSE CarryForward(prod, closure, years, i + 1, prod[y])

estimate_production_from_historical(table, years) ==
    [i \in DOMAIN table |->
        [table[i] EXCEPT !["Production"] =
            CarryForward(table[i]["Production"], table[i]["Project Closure Year"],
                         years, 1, NaN)]]

\* estimate_future_production; update_df_from_dict writes every value back.
EstimateFutureProduction ==
    /\ pc = "excluded"
    /\ sp_dataset_updated' =
          estimate_production_from_historical(sp_dataset_updated, production_years)
    /\ pc' = "estimated"
    /\ UNCHANGED <<utils_vars, processing_report, error, timeframe, importer_vars, config_vars, sp_dataset_raw,
                   production_years, production_time_steps, scenario_data,
                   premise_scenario_data>>


\* fillna(0) of one cell
FillZero(cell) == IF cell = NaN THEN 0 ELSE cell[1]

\* One row of a scenario's frame: the output columns, the time-step columns
\* zero-filled and renamed to their year labels (held under "Years").
ScenarioRow(sc, row, steps) ==
    [c \in {"Scenario", "Project ID", "Project Name", "Country", "Deposit Type",
            "Ore Minerals", "Product", "Production Unit", "Years"} |->
        CASE c = "Scenario" -> sc
          [] c = "Years"    -> [y \in Range(steps) |-> FillZero(row["Production"][y])]
          [] OTHER          -> row[c]]

\* A variant that keeps a project reporting production in any year.
DropWithoutProduction_AnyYear(table, steps) ==
    SelectSeq(table, LAMBDA r : \E y \in DOMAIN r["Production"] : r["Production"][y] # NaN)

\* dropna(subset=production_columns, how='all')
DropWithoutProduction(table, steps) ==
    SelectSeq(table, LAMBDA r : \E y \in Range(steps) : r["Production"][y] # NaN)

\* The frames of the scenarios from position i on, concatenated.
RECURSIVE ConcatScenarios(_, _, _, _)
ConcatScenarios(table, scs, i, steps) ==
    IF i > Len(scs) THEN << >>
    ELSE LET sel == SelectSeq(table,
                        LAMBDA r : IsIn(r["Development Stage"], scs[i].stages))
         IN  [k \in DOMAIN sel |-> ScenarioRow(scs[i].name, sel[k], steps)]
                \o ConcatScenarios(table, scs, i + 1, steps)

\* data_all[data_all["Scenario"] == "S&P-Baseline"]["Project ID"].values
BaselineIds(data) ==
    {data[k]["Project ID"] : k \in {j \in DOMAIN data : data[j]["Scenario"] = "S&P-Baseline"}}

\* A variant that leaves the first year as it is.
EnforceBaseline_Skip(data, start) == data

\* A variant that zeroes every year of such a row.
EnforceBaseline_AllYears(data, start) ==
    [k \in DOMAIN data |->
        IF data[k]["Project ID"] \notin BaselineIds(data)
        THEN [data[k] EXCEPT !["Years"] = [y \in DOMAIN data[k]["Years"] |-> 0]]
        ELSE data[k]]

\* The loop over data_all.iterrows(): the start year of a row whose project
\* is not in the baseline scenario is set to 0.
EnforceBaseline(data, start) ==
    [k \in DOMAIN data |->
        IF data[k]["Project ID"] \notin BaselineIds(data)
        THEN [data[k] EXCEPT !["Years"][start] = 0]
        ELSE data[k]]

create_scenarios_data(table, scs, steps, start) ==
    EnforceBaseline(ConcatScenarios(DropWithoutProduction(table, steps), scs, 1, steps),
                    start)

CreateScenariosData ==
    /\ pc = "estimated"
    /\ scenario_data' = create_scenarios_data(sp_dataset_updated, scenarios,
                                              production_time_steps, timeframe[1])
    /\ pc' = "scenarios_created"
    /\ UNCHANGED <<utils_vars, processing_report, error, timeframe, importer_vars, config_vars, sp_dataset_raw,
                   production_years, production_time_steps, sp_dataset_updated,
                   premise_scenario_data>>

\* text.split(','): the pieces between the commas, in order.
RECURSIVE SplitComma(_, _)
SplitComma(text, piece) ==
    IF text = << >> THEN <<piece>>
    ELSE IF Head(text) = "," THEN <<piece>> \o SplitComma(Tail(text), << >>)
         ELSE SplitComma(Tail(text), Append(piece, Head(text)))

\* piece.strip(): blanks removed at both ends.
RECURSIVE LStrip(_)
LStrip(t) == IF t # << >> /\ Head(t) = " " THEN LStrip(Tail(t)) ELSE t

RECURSIVE RStrip(_)
RStrip(t) ==
    IF t # << >> /\ t[Len(t)] = " " THEN RStrip(SubSeq(t, 1, Len(t) - 1)) ELSE t

Strip(t) == RStrip(LStrip(t))

\* [product.strip() for product in row["Product"].split(',')]
ListProducts(text) ==
    LET pieces == SplitComma(text, << >>)
    IN  {Strip(pieces[i]) : i \in DOMAIN pieces}

\* A variant of the conversion loop that stops at the first match.
RECURSIVE ConversionLoop_Break(_, _, _)
ConversionLoop_Break(years, conversions, products) ==
    IF conversions = << >> THEN years
    ELSE IF Head(conversions)[1] \in products
         THEN [y \in DOMAIN years |-> years[y] * Head(conversions)[2]]
         ELSE ConversionLoop_Break(years, Tail(conversions), products)

\* for other_com in Conversions: every alternative found among the row's
\* products multiplies the row's years by its factor; the loop has no break.
RECURSIVE ConversionLoop(_, _, _)
ConversionLoop(years, conversions, products) ==
    IF conversions = << >> THEN years
    ELSE ConversionLoop(
            IF Head(conversions)[1] \in products
            THEN [y \in DOMAIN years |-> years[y] * Head(conversions)[2]]
            ELSE years,
            Tail(conversions), products)

\* A variant of the loop body that rescales a row without rewriting Product.
HarmonizeRow_KeepProduct(row, rules) ==
    IF row["Deposit Type"] # NaN /\ row["Deposit Type"][1] \in DOMAIN rules
    THEN IF row["Product"] = NaN THEN row
         ELSE LET rule == rules[row["Deposit Type"][1]]
                  list_products == ListProducts(row["Product"][1])
              IN  IF rule.Product \in list_products
                  THEN [row EXCEPT !["Product"] = Some(rule.Product)]
                  ELSE [row EXCEPT
                          !["Years"] = ConversionLoop(row["Years"], rule.Conversions,
                                                      list_products)]
    ELSE row

\* The body of the loop over scenario_data.iterrows() for one row.
HarmonizeRow(row, rules) ==
    IF row["Deposit Type"] # NaN /\ row["Deposit Type"][1] \in DOMAIN rules
    THEN IF row["Product"] = NaN THEN row
         ELSE LET rule == rules[row["Deposit Type"][1]]
                  list_products == ListProducts(row["Product"][1])
              IN  IF rule.Product \in list_products
                  THEN [row EXCEPT !["Product"] = Some(rule.Product)]
                  ELSE IF \E i \in DOMAIN rule.Conversions :
                             rule.Conversions[i][1] \in list_products
                       THEN [row EXCEPT
                               !["Product"] = Some(rule.Product),
                               !["Years"] = ConversionLoop(row["Years"], rule.Conversions,
                                                           list_products)]
                       ELSE row
    ELSE row

harmonize_production_data(data, hd, com) ==
    IF com \in DOMAIN hd
    THEN [k \in DOMAIN data |-> HarmonizeRow(data[k], hd[com])]
    ELSE data

HarmonizeProductionData ==
    /\ pc = "scenarios_created"
    /\ scenario_data' = harmonize_production_data(scenario_data, harmonize_data, commodity)
    /\ pc' = "harmonized"
    /\ UNCHANGED <<utils_vars, processing_report, error, timeframe, importer_vars, config_vars, sp_dataset_raw,
                   production_years, production_time_steps, sp_dataset_updated,
                   premise_scenario_data>>

\* harmonize_production_data called again on the constructed object.
HarmonizeAgain ==
    /\ pc = "exported"
    /\ scenario_data' = harmonize_production_data(scenario_data, harmonize_data, commodity)
    /\ pc' = "harmonized_again"
    /\ UNCHANGED <<utils_vars, processing_report, error, timeframe, importer_vars, config_vars, sp_dataset_raw,
                   production_years, production_time_steps, sp_dataset_updated,
                   premise_scenario_data>>


\* The elements of a sequence without repetitions, by first occurrence.
RECURSIVE Distinct(_)
Distinct(s) ==
    IF s = << >> THEN << >>
    ELSE <<Head(s)>> \o Distinct(SelectSeq(Tail(s), LAMBDA x : x # Head(s)))

\* pycountry.countries.lookup(name).alpha_2 for the countries it knows; any
\* other name, the label "Dem. Rep. Congo" included, raises LookupError.
CountryCodes ==
    [n \in {"Chile", "Peru", "Congo, The Democratic Republic of the"} |->
        CASE n = "Chile" -> "CL"
          [] n = "Peru"  -> "PE"
          [] OTHER       -> "CD"]

CountryName(cell) ==
    IF cell = Some("Dem. Rep. Congo") THEN Some("Congo, The Democratic Republic of the")
    ELSE cell

LookupFails(cell) == CountryName(cell) = NaN \/ CountryName(cell)[1] \notin DOMAIN CountryCodes

\* str(value) of a text cell and of a name cell: a missing value reads "nan".
StrText(cell) == IF cell = NaN THEN <<"n", "a", "n">> ELSE cell[1]

StrName(cell) == IF cell = NaN THEN "nan" ELSE cell[1]

\* "Production|<commodity>|<deposit type>|<project name>", as its three parts
VariableName(com, row) == <<com, StrText(row["Deposit Type"]), StrName(row["Project Name"])>>

\* The record appended to premise_scenario_data for one row.
PremiseFields(com, row) ==
    [scenario  |-> row["Scenario"],
     region    |-> CountryCodes[CountryName(row["Country"])[1]],
     variables |-> VariableName(com, row),
     unit      |-> row["Production Unit"][1],
     years     |-> row["Years"]]

RECURSIVE SumYears(_, _)
SumYears(records, steps) ==
    IF records = << >> THEN [y \in Range(steps) |-> 0]
    ELSE [y \in Range(steps) |-> Head(records).years[y] + SumYears(Tail(records), steps)[y]]

\* groupby(['scenario', 'variables']).agg(years: sum, region/unit: first).
\* The groups are listed by first occurrence; the code lists them sorted by
\* key, an order nothing below depends on.
GroupAggregate(records, steps) ==
    LET keys == Distinct([i \in DOMAIN records |->
                            <<records[i].scenario, records[i].variables>>])
        members(k) == SelectSeq(records,
                          LAMBDA r : <<r.scenario, r.variables>> = k)
    IN  [g \in DOMAIN keys |->
            [scenario  |-> keys[g][1],
             variables |-> keys[g][2],
             region    |-> members(keys[g])[1].region,
             unit      |-> members(keys[g])[1].unit,
             years     |-> SumYears(members(keys[g]), steps)]]

\* [['variables', 'region', 'unit']].drop_duplicates() of the grouped frame
RegionUnits(grouped, v) ==
    {<<grouped[g].region, grouped[g].unit>> :
        g \in {h \in DOMAIN grouped : grouped[h].variables = v}}

\* A variant of the left merge that keeps only the combinations that had a row.
MergeCombinations_Inner(grouped, steps) == grouped

\* The cross product of the scenarios and the variables, region and unit
\* mapped from the variable, left-merged with the grouped frame, fillna(0).
MergeCombinations(grouped, steps) ==
    LET unique_variables == Distinct([g \in DOMAIN grouped |-> grouped[g].variables])
        unique_scenarios == Distinct([g \in DOMAIN grouped |-> grouped[g].scenario])
        nv == Len(unique_variables)
        ru(v) == CHOOSE x \in RegionUnits(grouped, v) : TRUE
        combo(n) ==
            LET sc == unique_scenarios[((n - 1) \div nv) + 1]
                v  == unique_variables[((n - 1) % nv) + 1]
                hit == {g \in DOMAIN grouped :
                            /\ grouped[g].scenario = sc
                            /\ grouped[g].variables = v
                            /\ grouped[g].region = ru(v)[1]
                            /\ grouped[g].unit = ru(v)[2]}
            IN  [scenario  |-> sc,
                 region    |-> ru(v)[1],
                 variables |-> v,
                 unit      |-> ru(v)[2],
                 years     |-> IF hit = {} THEN [y \in Range(steps) |-> 0]
                               ELSE grouped[CHOOSE g \in hit : TRUE].years]
    IN  [n \in 1..(Len(unique_scenarios) * nv) |-> combo(n)]

\* export_to_premise_scenarios: the table, or the error that ends the run.
\* An empty frame has no 'scenario' column to group by (KeyError); a country
\* that cannot be resolved raises LookupError; a variable with two
\* (region, unit) pairs makes to_dict('index') raise ValueError.
export_to_premise_scenarios(data, com, steps) ==
    IF data = << >> THEN [ok |-> FALSE, error |-> "KeyError", table |-> << >>]
    ELSE IF \E k \in DOMAIN data : LookupFails(data[k]["Country"])
    THEN [ok |-> FALSE, error |-> "LookupError", table |-> << >>]
    ELSE LET grouped == GroupAggregate([k \in DOMAIN data |-> PremiseFields(com, data[k])],
                                       steps)
         IN  IF \E g \in DOMAIN grouped :
                    Cardinality(RegionUnits(grouped, grouped[g].variables)) > 1
             THEN [ok |-> FALSE, error |-> "ValueError", table |-> << >>]
             ELSE [ok |-> TRUE, error |-> "", table |-> MergeCombinations(grouped, steps)]

ExportToPremiseScenarios ==
    /\ pc = "harmonized"
    /\ LET r == export_to_premise_scenarios(scenario_data, commodity, production_time_steps)
       IN  /\ premise_scenario_data' = r.table
           /\ pc' = IF r.ok THEN "exported" ELSE "failed"
           /\ error' = r.error
    /\ UNCHANGED <<utils_vars, processing_report, timeframe, importer_vars, config_vars, sp_dataset_raw,
                   production_years, production_time_steps, sp_dataset_updated,
                   scenario_data>>

\* DataFrame.count() of one column: the rows with a value.
CountKnown(table, y) ==
    Cardinality({i \in DOMAIN table : table[i]["Production"][y] # NaN})

\* DataFrame.sum() of one column: missing values are skipped.
RECURSIVE SumKnown(_, _)
SumKnown(table, y) ==
    IF table = << >> THEN 0
    ELSE FillZero(Head(table)["Production"][y]) + SumKnown(Tail(table), y)

\* round(count / total * 100, 2), in hundredths of a percent; a table
\* without rows gives a missing value.
RelativeCount(count, total) ==
    IF total = 0 THEN NaN ELSE Some((count * 20000 + total) \div (2 * total))

\* generate_processing_report: the entries of the report, by their labels.
generate_processing_report(updated, data, steps) ==
    LET total_number_projects == Len(updated)
        number_projects_scenarios ==
            Cardinality({data[k]["Project ID"] : k \in DOMAIN data})
    IN  [label \in {"Number projects in updated dataset",
                    "Number projects with production in updated dataset",
                    "Number projects in scenarios",
                    "Number projects discarded due to lack of production",
                    "Share of all projects with production volume (%)",
                    "Raw production volumes (kt/year)"} |->
            CASE label = "Number projects in updated dataset" -> total_number_projects
              [] label = "Number projects with production in updated dataset" ->
                    [y \in Range(steps) |-> CountKnown(updated, y)]
              [] label = "Number projects in scenarios" -> number_projects_scenarios
              [] label = "Number projects discarded due to lack of production" ->
                    total_number_projects - number_projects_scenarios
              [] label = "Share of all projects with production volume (%)" ->
                    [y \in Range(steps) |->
                        RelativeCount(CountKnown(updated, y), total_number_projects)]
              [] OTHER -> [y \in Range(steps) |-> SumKnown(updated, y)]]

\* self.processing_report = self.generate_processing_report()
GenerateProcessingReport ==
    /\ pc = "exported"
    /\ processing_report' =
          generate_processing_report(sp_dataset_updated, scenario_data,
                                     production_time_steps)
    /\ pc' = "reported"
    /\ UNCHANGED <<utils_vars, error, timeframe, importer_vars, config_vars,
                   sp_dataset_raw, production_years, production_time_steps,
                   sp_dataset_updated, scenario_data, premise_scenario_data>>


(***************************************************************************)
(* The builder's inputs                                                    *)
(***************************************************************************)
MaxProduction == 2

ProductionCells == {NaN} \cup {Some(v) : v \in 1..MaxProduction}

\* One row of the table get_sp_dataset returns, indexed by Project ID.
ProjectRow(id, name, country, deposit, ore, activity, stage, product, closure, prod) ==
    [c \in {"Project ID", "Project Name", "Country", "Deposit Type", "Ore Minerals",
            "Activity Status", "Development Stage", "Product", "Production Unit",
            "Project Closure Year", "Production"} |->
        CASE c = "Project ID"           -> id
          [] c = "Project Name"         -> name
          [] c = "Country"              -> country
          [] c = "Deposit Type"         -> deposit
          [] c = "Ore Minerals"         -> ore
          [] c = "Activity Status"      -> activity
          [] c = "Development Stage"    -> stage
          [] c = "Product"              -> product
          [] c = "Production Unit"      -> Some("kt/year")
          [] c = "Project Closure Year" -> closure
          [] OTHER                      -> prod]

Lithium == "Lithium"

Brine == <<"b">>

\* fill_data_gaps.yaml: empty, for another commodity, or overriding columns
\* of project 101.
GapDocuments ==
    { << >>,
      [c \in {"Cobalt"} |-> [p \in {101} |-> << <<"Country", Some("Peru")>> >>]],
      [c \in {Lithium} |-> [p \in {101, 999} |->
            << <<"Country", Some("Peru")>>, <<"Deposit Type", Some(<<"a", "b">>)>>,
               <<"Country", Some("Chile")>> >>]] }

\* scenarios_by_development_stage.yaml
ScenarioDocuments ==
    { << [name |-> "S&P-Baseline", stages |-> <<"Operating">>],
         [name |-> "Optimistic",   stages |-> <<"Operating", "Feasibility">>] >>,
      << [name |-> "S&P-Baseline", stages |-> <<"Operating">>],
         [name |-> "Prospective",  stages |-> <<"Feasibility">>] >>,
      << [name |-> "All",          stages |-> <<"Feasibility", "Operating">>] >> }

\* production_harmonization.yaml: canonical labels and the alternatives of a
\* conversion map are labels, texts without commas or blanks at their ends.
HarmonizationRules ==
    { [Product |-> <<"M">>, Conversions |-> << >>],
      [Product |-> <<"M">>, Conversions |-> << <<<<"O">>, 2>> >>],
      [Product |-> <<"M">>, Conversions |-> << <<<<"O">>, 2>>, <<<<"C">>, 3>> >>],
      [Product |-> <<"M", " ", "O">>, Conversions |-> << <<<<"C">>, 3>>, <<<<"M">>, 2>> >>] }

HarmonizationDocuments ==
    {<< >>} \cup {[c \in {Lithium} |-> [d \in {Brine} |-> r]] : r \in HarmonizationRules}

BuilderStart(tf, table) ==
    /\ pc = "construct"
    /\ error = ""
    /\ timeframe = tf
    /\ ImporterIdle
    /\ UtilsIdle
    /\ commodity = Lithium
    /\ sp_dataset_raw = table
    /\ production_years = << >>
    /\ production_time_steps = << >>
    /\ sp_dataset_updated = << >>
    /\ scenario_data = << >>
    /\ premise_scenario_data = << >>
    /\ processing_report = << >>

\* ---- the whole constructor, over two projects that differ in stage, name,
\* country, product and production.
BuildTimeframe == <<1, 2, 2>>

BuildProducts == {Some(<<"M">>), Some(<<"O", ",", " ", "C">>)}

InitBuild ==
    /\ \E st1, st2 \in {Some("Operating"), Some("Feasibility")} :
       \E n2 \in {Some("Mine A"), Some("Mine B")} :
       \E co1 \in {Some("Chile"), Some("Peru")} :
       \E co2 \in {Some("Chile"), Some("Dem. Rep. Congo"), Some("Atlantis")} :
       \E pr1, pr2 \in BuildProducts :
       \E a1, a2 \in ProductionCells :
       \E b1, b2 \in {NaN, Some(1)} :
          BuilderStart(BuildTimeframe,
              << ProjectRow(101, Some("Mine A"), co1, Some(Brine), Some(<<"a">>),
                            Some(<<"a">>), st1, pr1, Some(2), [y \in 1..2 |-> IF y = 1 THEN a1 ELSE b1]),
                 ProjectRow(102, n2, co2, Some(Brine), Some(<<"a">>),
                            Some(<<"a">>), st2, pr2, NaN, [y \in 1..2 |-> IF y = 1 THEN a2 ELSE b2]) >>)
    /\ specifics = << >>
    /\ exclude = << >>
    /\ data_gaps = << >>
    /\ scenarios \in ScenarioDocuments
    /\ harmonize_data \in HarmonizationDocuments

Next ==
    \/ GetProductionTimeSteps
    \/ FillDataGaps
    \/ SelectSpecifics
    \/ ExcludeProjects
    \/ EstimateFutureProduction
    \/ CreateScenariosData
    \/ HarmonizeProductionData
    \/ ExportToPremiseScenarios
    \/ GenerateProcessingReport
    \/ HarmonizeAgain

Spec == InitBuild /\ [][Next]_vars


(***************************************************************************)
(* Properties of the Scenario Dataset and of the export                    *)
(***************************************************************************)
ScenarioDataBuilt ==
    pc \in {"scenarios_created", "harmonized", "exported", "harmonized_again"}

StartYear == timeframe[1]

RowsOf(sc) == {k \in DOMAIN scenario_data : scenario_data[k]["Scenario"] = sc}

\* The Project IDs present in scenario "S&P-Baseline".
BaselineProjects == {scenario_data[k]["Project ID"] : k \in RowsOf("S&P-Baseline")}

\* The Project IDs whose start-year value is non-zero in scenario sc.
NonZeroAtStart(sc) ==
    {scenario_data[k]["Project ID"] :
        k \in {j \in RowsOf(sc) : scenario_data[j]["Years"][StartYear] # 0}}

ScenarioNames == {scenarios[i].name : i \in DOMAIN scenarios}

\* The row of the Updated table for a Project ID.
UpdatedRow(id) ==
    sp_dataset_updated[CHOOSE i \in DOMAIN sp_dataset_updated :
                           sp_dataset_updated[i]["Project ID"] = id]

C3_NonBaselineStartZero ==
    /\ ScenarioDataBuilt =>
          \A k \in DOMAIN scenario_data :
             scenario_data[k]["Project ID"] \notin BaselineProjects
                => scenario_data[k]["Years"][StartYear] = 0
    /\ pc = "scenarios_created" =>
          \A k \in DOMAIN scenario_data : \A y \in Range(production_time_steps) :
             (y # StartYear \/ scenario_data[k]["Project ID"] \in BaselineProjects)
                => scenario_data[k]["Years"][y]
                      = FillZero(UpdatedRow(scenario_data[k]["Project ID"])["Production"][y])

\* After harmonization: a row outside the baseline set, whose project
\* reports start-year production, was rescaled in a later year and is 0 in
\* the start year.
C3_Witness ==
    /\ pc = "harmonized"
    /\ \E k \in DOMAIN scenario_data :
          LET id == scenario_data[k]["Project ID"]
          IN  /\ id \notin BaselineProjects
              /\ UpdatedRow(id)["Production"][StartYear] # NaN
              /\ \E y \in Range(production_time_steps) :
                    /\ y # StartYear
                    /\ scenario_data[k]["Years"][y] # FillZero(UpdatedRow(id)["Production"][y])

ExportedRows(sc, v) ==
    {n \in DOMAIN premise_scenario_data :
        premise_scenario_data[n].scenario = sc /\ premise_scenario_data[n].variables = v}

DataRows(sc, v) ==
    {k \in RowsOf(sc) : VariableName(commodity, scenario_data[k]) = v}

\* C4: in the exported table every scenario that has a row and every
\* variable that occurs under any scenario have exactly one row; the row of
\* a pair the Scenario Dataset has no row for is 0 in every year; a variable
\* carries one region and one unit.
C4_ExportCompleteness ==
    pc = "exported" =>
        /\ \A k1, k2 \in DOMAIN scenario_data :
              LET sc == scenario_data[k1]["Scenario"]
                  v  == VariableName(commodity, scenario_data[k2])
              IN  /\ Cardinality(ExportedRows(sc, v)) = 1
                  /\ DataRows(sc, v) = {} =>
                        \A n \in ExportedRows(sc, v) :
                           \A y \in Range(production_time_steps) :
                              premise_scenario_data[n].years[y] = 0
        /\ \A n, m \in DOMAIN premise_scenario_data :
              premise_scenario_data[n].variables = premise_scenario_data[m].variables
                 => /\ premise_scenario_data[n].region = premise_scenario_data[m].region
                    /\ premise_scenario_data[n].unit = premise_scenario_data[m].unit

\* An export in which some scenario lacked a variable of another scenario.
C4_Witness ==
    /\ pc = "exported"
    /\ \E k1, k2 \in DOMAIN scenario_data :
          /\ DataRows(scenario_data[k1]["Scenario"],
                      VariableName(commodity, scenario_data[k2])) = {}
          /\ \E y \in Range(production_time_steps) : scenario_data[k2]["Years"][y] # 0


(***************************************************************************)
(* estimate_future_production                                              *)
(***************************************************************************)
\* ---- the constructor up to the estimation, over two projects whose
\* production in three consecutive years and whose closure year vary.
EstimateTimeframe == <<1, 3, 1>>

ClosureYears == {NaN} \cup {Some(c) : c \in 0..4}

InitEstimate ==
    /\ \E p1, p2 \in [1..3 -> ProductionCells] :
       \E c1 \in ClosureYears :
       \E c2 \in {NaN, Some(2)} :
          BuilderStart(EstimateTimeframe,
              << ProjectRow(101, Some("Mine A"), Some("Chile"), Some(Brine), Some(<<"a">>),
                            Some(<<"a">>), Some("Operating"), Some(<<"M">>), c1, p1),
                 ProjectRow(102, Some("Mine B"), Some("Peru"), Some(Brine), Some(<<"a">>),
                            Some(<<"a">>), Some("Feasibility"), Some(<<"M">>), c2, p2) >>)
    /\ specifics = << >>
    /\ exclude = << >>
    /\ data_gaps = << >>
    /\ scenarios \in ScenarioDocuments
    /\ harmonize_data = << >>

NextEstimate ==
    \/ GetProductionTimeSteps
    \/ FillDataGaps
    \/ SelectSpecifics
    \/ ExcludeProjects
    \/ EstimateFutureProduction

SpecEstimate == InitEstimate /\ [][NextEstimate]_vars

\* The row of the raw table for a Project ID: the project before estimation
\* (no gap is filled and no project is filtered under SpecEstimate).
RawRow(id) ==
    sp_dataset_raw[CHOOSE i \in DOMAIN sp_dataset_raw : sp_dataset_raw[i]["Project ID"] = id]

\* The years before y in which the project's production was known.
KnownBefore(before, y) ==
    {z \in Range(production_years) : z < y /\ before[z] # NaN}

Latest(S) == CHOOSE z \in S : \A w \in S : w <= z

\* C1: after estimation a cell that was known is unchanged; a cell that was
\* missing holds the most recent known original value of an earlier year if
\* there is one and the closure year is known and >= the cell's year; it is
\* still missing otherwise.
C1_CarryForward ==
    pc = "estimated" =>
        /\ Len(sp_dataset_updated) = Len(sp_dataset_raw)
        /\ \A i \in DOMAIN sp_dataset_updated : \A y \in Range(production_years) :
              LET id      == sp_dataset_updated[i]["Project ID"]
                  before  == RawRow(id)["Production"]
                  after   == sp_dataset_updated[i]["Production"]
                  closure == RawRow(id)["Project Closure Year"]
              IN  IF before[y] # NaN THEN after[y] = before[y]
                  ELSE IF /\ KnownBefore(before, y) # {}
                          /\ closure # NaN
                          /\ closure[1] >= y
                       THEN after[y] = before[Latest(KnownBefore(before, y))]
                       ELSE after[y] = NaN

\* The series [known, missing, missing] with a closure year between the two
\* missing years: the first is filled, the second stays missing.
C1_Witness ==
    /\ pc = "estimated"
    /\ \E i \in DOMAIN sp_dataset_updated :
          LET before == RawRow(sp_dataset_updated[i]["Project ID"])["Production"]
              after  == sp_dataset_updated[i]["Production"]
          IN  /\ before[1] # NaN /\ before[2] = NaN /\ before[3] = NaN
              /\ sp_dataset_updated[i]["Project Closure Year"] = Some(2)
              /\ after[2] = before[1]
              /\ after[3] = NaN


(***************************************************************************)
(* Project filtering in the constructor                                    *)
(***************************************************************************)
\* ---- the constructor up to the exclusion, over two projects whose deposit
\* type, country and activity status vary, under every combination of the
\* specifics keys, with lists that are empty, hold one or two entries or hold
\* the empty text.
FilterTimeframe == <<1, 2, 1>>

DepositCells == {NaN, Some(<<"a">>), Some(<<"a", "b">>), Some(<<"A">>)}

DepositLists == {<< >>, << <<"a">> >>, << <<"b">>, <<"A">> >>, << << >> >>}

ActivityLists == {<< >>, << <<"a">> >>}

CountryLists == {<< >>, <<"Chile">>, <<"Chile", "Peru">>}

SpecificsKeys == {"Deposit Type", "Ore Minerals", "Activity Status", "Country"}

\* kwargs["specifics"] with the keys D.
SpecificsDocument(D, deposits, activities, countries) ==
    [k \in D |->
        CASE k = "Deposit Type"    -> deposits
          [] k = "Activity Status" -> activities
          [] k = "Ore Minerals"    -> << <<"a">> >>
          [] OTHER                 -> countries]

\* kwargs["exclude"]: pairs of a column and its list, in document order.
ExcludeDocuments ==
    { << >>,
      << <<"Country", <<"Chile">>>> >>,
      << <<"Country", <<"Peru">>>>, <<"Deposit Type", << <<"a">> >>>> >>,
      << <<"Deposit Type", << >>>> >> }

InitFilter ==
    /\ \E d1 \in DepositCells :
       \E d2 \in {Some(<<"a">>), Some(<<"b", "a">>)} :
       \E co1 \in {NaN, Some("Chile"), Some("Peru")} :
       \E co2 \in {Some("Chile"), Some("Peru")} :
       \E ac1 \in {NaN, Some(<<"a">>)} :
          BuilderStart(FilterTimeframe,
              << ProjectRow(101, Some("Mine A"), co1, d1, Some(<<"a">>), ac1,
                            Some("Operating"), Some(<<"M">>), NaN, [y \in 1..2 |-> Some(1)]),
                 ProjectRow(102, Some("Mine B"), co2, d2, Some(<<"a">>), Some(<<"a">>),
                            Some("Feasibility"), Some(<<"M">>), NaN, [y \in 1..2 |-> NaN]) >>)
    /\ \E D \in SUBSET SpecificsKeys :
       \E dl \in IF "Deposit Type" \in D THEN DepositLists ELSE {<< >>} :
       \E al \in IF "Activity Status" \in D THEN ActivityLists ELSE {<< >>} :
       \E cl \in IF "Country" \in D THEN CountryLists ELSE {<< >>} :
          specifics = SpecificsDocument(D, dl, al, cl)
    /\ exclude \in ExcludeDocuments
    /\ data_gaps \in GapDocuments
    /\ scenarios \in {s \in ScenarioDocuments : Len(s) = 1}
    /\ harmonize_data = << >>

NextFilter ==
    \/ GetProductionTimeSteps
    \/ FillDataGaps
    \/ SelectSpecifics
    \/ ExcludeProjects

SpecFilter == InitFilter /\ [][NextFilter]_vars

\* The gap-filled projects.
GapFilled == FillGaps(sp_dataset_raw, data_gaps, commodity)

\* (a) of C7 for one key: the value is present and, for "Country", is one of
\* the listed names; for the other keys, contains a listed string.
SatisfiesKey(row, k) ==
    /\ row[k] # NaN
    /\ \E i \in DOMAIN specifics[k] :
          IF k = "Country" THEN row[k][1] = specifics[k][i]
          ELSE IsSubstring(specifics[k][i], row[k][1])

\* (b) of C7: in no column named in exclude is the value in the column's list.
NotExcluded(row) ==
    \A j \in DOMAIN exclude :
       ~(row[exclude[j][1]] # NaN /\ row[exclude[j][1]][1] \in Range(exclude[j][2]))

\* C7 as stated: after the specifics and exclude steps the Updated table
\* holds exactly the gap-filled projects that satisfy every key given in
\* specifics and that no column of exclude excludes.
C7_ProjectFiltering ==
    pc = "excluded" =>
        sp_dataset_updated =
            SelectSeq(GapFilled,
                      LAMBDA r : (\A k \in DOMAIN specifics : SatisfiesKey(r, k))
                                    /\ NotExcluded(r))

\* No list of a substring key of specifics is empty.
SubstringListsNonEmpty ==
    \A k \in DOMAIN specifics \ {"Country"} : specifics[k] # << >>

\* C7 for the documents in which every substring key lists a string: the
\* statement holds there.
C7_FilteringListedStrings ==
    (pc = "excluded" /\ SubstringListsNonEmpty) =>
        sp_dataset_updated =
            SelectSeq(GapFilled,
                      LAMBDA r : (\A k \in DOMAIN specifics : SatisfiesKey(r, k))
                                    /\ NotExcluded(r))

\* specifics {"Deposit Type": []}: every project with a deposit type is kept.
C7_EmptyListKeepsRows ==
    /\ pc = "excluded"
    /\ "Deposit Type" \in DOMAIN specifics
    /\ specifics["Deposit Type"] = << >>
    /\ sp_dataset_updated # << >>


(***************************************************************************)
(* harmonize_production_data                                               *)
(***************************************************************************)
\* ---- the whole constructor and a second harmonization, over a project
\* whose Product is missing or any text of at most MaxProductLen characters
\* made of the labels' letters, commas and blanks, next to a project that
\* reports one alternative.
MaxProductLen == 4

ProductLetters == {"M", "O", "C", ",", " "}

ProductTexts == UNION {[1..n -> ProductLetters] : n \in 0..MaxProductLen}

InitHarmonize ==
    /\ \E d1 \in {NaN, Some(Brine), Some(<<"a">>)} :
       \E pr1 \in {NaN} \cup {Some(t) : t \in ProductTexts} :
       \E v \in 1..MaxProduction :
          BuilderStart(BuildTimeframe,
              << ProjectRow(101, Some("Mine A"), Some("Chile"), d1, Some(<<"a">>),
                            Some(<<"a">>), Some("Operating"), pr1, Some(2),
                            [y \in 1..2 |-> IF y = 1 THEN Some(v) ELSE Some(1)]),
                 ProjectRow(102, Some("Mine B"), Some("Peru"), Some(Brine), Some(<<"a">>),
                            Some(<<"a">>), Some("Feasibility"), Some(<<"O">>), NaN,
                            [y \in 1..2 |-> IF y = 1 THEN NaN ELSE Some(2)]) >>)
    /\ specifics = << >>
    /\ exclude = << >>
    /\ data_gaps = << >>
    /\ scenarios \in {s \in ScenarioDocuments : Len(s) = 2 /\ s[2].name = "Optimistic"}
    /\ harmonize_data \in HarmonizationDocuments

SpecHarmonize == InitHarmonize /\ [][Next]_vars

\* The rule of a row: the row's deposit type has one and its Product is
\* present.
HasRule(row) ==
    /\ commodity \in DOMAIN harmonize_data
    /\ row["Deposit Type"] # NaN
    /\ row["Deposit Type"][1] \in DOMAIN harmonize_data[commodity]
    /\ row["Product"] # NaN

RuleOf(row) == harmonize_data[commodity][row["Deposit Type"][1]]

\* The positions of the conversion map whose alternative is among the row's
\* comma-split, trimmed candidates.
MatchingAlternatives(row) ==
    {i \in DOMAIN RuleOf(row).Conversions :
        RuleOf(row).Conversions[i][1] \in ListProducts(row["Product"][1])}

First(S) == CHOOSE i \in S : \A j \in S : i <= j

\* What C5 states of one row before and after harmonization.
FirstAlternativeOnce(row, after) ==
    (HasRule(row) /\ RuleOf(row).Product \notin ListProducts(row["Product"][1])) =>
        IF MatchingAlternatives(row) # {}
        THEN /\ after["Product"] = Some(RuleOf(row).Product)
             /\ \A y \in DOMAIN row["Years"] :
                   after["Years"][y] =
                      row["Years"][y] * RuleOf(row).Conversions[First(MatchingAlternatives(row))][2]
        ELSE /\ after["Product"] = row["Product"]
             /\ after["Years"] = row["Years"]

\* C5 as stated: a row with a rule whose candidates lack the canonical
\* product gets the canonical product and is multiplied exactly once, by the
\* factor of the first alternative found among its candidates, also when
\* several alternatives are among them; with no alternative it is unchanged.
C5_FirstAlternativeOnce ==
    [][(pc = "scenarios_created" /\ pc' = "harmonized") =>
          \A k \in DOMAIN scenario_data :
             FirstAlternativeOnce(scenario_data[k], scenario_data'[k])]_vars

\* C5 for the rows with at most one alternative among their candidates: the
\* statement holds there.
C5_SingleAlternative ==
    [][(pc = "scenarios_created" /\ pc' = "harmonized") =>
          \A k \in DOMAIN scenario_data :
             (HasRule(scenario_data[k]) =>
                 Cardinality(MatchingAlternatives(scenario_data[k])) <= 1)
                => FirstAlternativeOnce(scenario_data[k], scenario_data'[k])]_vars

\* A harmonized row that listed two alternatives of its rule and whose
\* volumes carry both factors.
C5_BothFactorsApplied ==
    /\ pc = "harmonized"
    /\ \E k \in DOMAIN scenario_data :
          LET id == scenario_data[k]["Project ID"]
          IN  /\ UpdatedRow(id)["Product"] = Some(<<"O", ",", "C">>)
              /\ UpdatedRow(id)["Deposit Type"] = Some(Brine)
              /\ scenario_data[k]["Product"] = Some(<<"M">>)
              /\ scenario_data[k]["Years"][2]
                    = 2 * 3 * FillZero(UpdatedRow(id)["Production"][2])

\* C6: a second harmonization of the harmonized Scenario Dataset changes
\* neither the Product nor any time-step volume of any row.
C6_HarmonizeIdempotent ==
    [][(pc = "exported" /\ pc' = "harmonized_again") =>
          /\ DOMAIN scenario_data' = DOMAIN scenario_data
          /\ \A k \in DOMAIN scenario_data :
                /\ scenario_data'[k]["Product"] = scenario_data[k]["Product"]
                /\ scenario_data'[k]["Years"] = scenario_data[k]["Years"]]_vars

\* After the second harmonization: a row that the first one rescaled and
\* whose Product is the canonical product of its rule.
C6_Witness ==
    /\ pc = "harmonized_again"
    /\ \E k \in DOMAIN scenario_data :
          LET id == scenario_data[k]["Project ID"]
          IN  /\ HasRule(scenario_data[k])
              /\ scenario_data[k]["Product"] = Some(RuleOf(scenario_data[k]).Product)
              /\ UpdatedRow(id)["Product"] # scenario_data[k]["Product"]
              /\ \E y \in DOMAIN scenario_data[k]["Years"] :
                    /\ scenario_data[k]["Years"][y] # 0
                    /\ scenario_data[k]["Years"][y] # FillZero(UpdatedRow(id)["Production"][y])


(***************************************************************************)
(* utils.py: add_cutoff_to_df                                              *)
(***************************************************************************)
\* A variant that buckets a row as soon as one of its cells is below the cutoff.
BelowCutoff_Any(row, c) ==
    \E j \in DOMAIN row.values : row.values[j] # NaN /\ row.values[j][1] < c

\* df.lt(cutoff).all(axis=1) for one row: every cell compares below the
\* cutoff; a missing cell compares False.
BelowCutoff(row, c) ==
    \A j \in DOMAIN row.values : row.values[j] # NaN /\ row.values[j][1] < c

\* DataFrame.sum() of one column: missing cells are skipped.
RECURSIVE ColumnSum(_, _)
ColumnSum(rows, j) ==
    IF rows = << >> THEN 0
    ELSE (IF Head(rows).values[j] = NaN THEN 0 ELSE Head(rows).values[j][1])
            + ColumnSum(Tail(rows), j)

add_cutoff_to_df(table, c, name) ==
    LET below     == SelectSeq(table.rows, LAMBDA r : BelowCutoff(r, c))
        df_cutoff == [label |-> name,
                      values |-> [j \in 1..table.width |-> Some(ColumnSum(below, j))]]
        kept      == SelectSeq(table.rows, LAMBDA r : ~BelowCutoff(r, c))
    IN  [width |-> table.width, rows |-> kept \o <<df_cutoff>>]

AddCutoffToDf ==
    /\ pc = "cutoff"
    /\ df_returned' = add_cutoff_to_df(df, cutoff, NEW_ROW_NAME)
    /\ pc' = "cutoff_done"
    /\ UNCHANGED <<error, timeframe, importer_vars, config_vars, builder_vars,
                   df, cutoff, NEW_ROW_NAME>>

\* ---- every table of at most MaxRows rows and one or two columns with
\* cells missing or in 0..MaxCount, and every cutoff up to MaxCount + 1.
MaxRows == 3

MaxCount == 2

CountCells == {NaN} \cup {Some(v) : v \in 0..MaxCount}

RowLabels == <<"A", "B", "C", "D", "E">>

InitCutoff ==
    /\ pc = "cutoff"
    /\ error = ""
    /\ timeframe = << >>
    /\ ImporterIdle
    /\ BuilderIdle
    /\ \E w \in 1..2 : \E n \in 0..MaxRows :
       \E first \in [1..n -> CountCells] :
       \E second \in IF w = 1 THEN {[i \in 1..n |-> NaN]}
                      ELSE [1..n -> {Some(v) : v \in 0..MaxCount}] :
          df = [width |-> w,
                rows  |-> [i \in 1..n |->
                             [label  |-> RowLabels[i],
                              values |-> IF w = 1 THEN <<first[i]>>
                                         ELSE <<first[i], second[i]>>]]]
    /\ cutoff \in 0..(MaxCount + 1)
    /\ NEW_ROW_NAME \in {"Other", "A"}
    /\ df_returned = << >>

NextCutoff == AddCutoffToDf

SpecCutoff == InitCutoff /\ [][NextCutoff]_vars

\* The positions of the rows of a table that are below the cutoff in every
\* column.
BelowRows(table) ==
    {i \in DOMAIN table.rows :
        \A j \in 1..table.width :
           table.rows[i].values[j] # NaN /\ table.rows[i].values[j][1] < cutoff}

\* The sum of column j over the rows at the positions S; a missing cell
\* adds nothing.
RECURSIVE SumAt(_, _, _)
SumAt(table, S, j) ==
    IF S = {} THEN 0
    ELSE LET i == CHOOSE x \in S : TRUE
         IN  (IF table.rows[i].values[j] = NaN THEN 0 ELSE table.rows[i].values[j][1])
                + SumAt(table, S \ {i}, j)

\* C10: the returned table is the rows that are not below the cutoff in
\* every column, in their order and unchanged, followed by exactly one row
\* with the aggregate label that holds in each column the sum over the rows
\* below the cutoff in every column; every column total is as before.
C10_CutoffBucket ==
    pc = "cutoff_done" =>
        LET retained == SeqOfSet(DOMAIN df.rows \ BelowRows(df))
            n        == Len(retained)
        IN  /\ Len(df_returned.rows) = n + 1
            /\ \A k \in 1..n : df_returned.rows[k] = df.rows[retained[k]]
            /\ df_returned.rows[n + 1].label = NEW_ROW_NAME
            /\ \A j \in 1..df.width :
                  /\ df_returned.rows[n + 1].values[j] = Some(SumAt(df, BelowRows(df), j))
                  /\ SumAt(df_returned, DOMAIN df_returned.rows, j)
                        = SumAt(df, DOMAIN df.rows, j)

\* A two-column table with a retained row between two rows below the cutoff
\* whose sum is not 0.
C10_Witness ==
    /\ pc = "cutoff_done"
    /\ df.width = 2
    /\ BelowRows(df) = {1, 3}
    /\ Len(df.rows) = 3
    /\ df_returned.rows[2].values[1] # Some(0)
    /\ df_returned.rows[1] = df.rows[2]


(***************************************************************************)
(* Scenario membership                                                     *)
(***************************************************************************)
\* ---- the whole constructor over three years of which the last is not a
\* time step, with a project whose stage may be missing or listed in no
\* scenario and whose production varies in every year.
ScenarioTimeframe == <<1, 3, 2>>

InitScenario ==
    /\ \E st1 \in {NaN, Some("Operating"), Some("Feasibility"), Some("Closed")} :
       \E st2 \in {Some("Operating"), Some("Feasibility")} :
       \E p1 \in [1..3 -> ProductionCells] :
       \E p2 \in [1..3 -> {NaN, Some(1)}] :
       \E c1 \in {NaN, Some(3)} :
          BuilderStart(ScenarioTimeframe,
              << ProjectRow(101, Some("Mine A"), Some("Chile"), Some(Brine), Some(<<"a">>),
                            Some(<<"a">>), st1, Some(<<"M">>), c1, p1),
                 ProjectRow(102, Some("Mine B"), Some("Peru"), Some(Brine), Some(<<"a">>),
                            Some(<<"a">>), st2, Some(<<"M">>), NaN, p2) >>)
    /\ specifics = << >>
    /\ exclude = << >>
    /\ data_gaps = << >>
    /\ scenarios \in ScenarioDocuments
    /\ harmonize_data = << >>

SpecScenario == InitScenario /\ [][Next]_vars

\* The project reports a value in at least one time-step column.
ReportsInTimeSteps(project) ==
    \E y \in Range(production_time_steps) : project["Production"][y] # NaN

\* The project's Development Stage is in the stage list of scenario s.
StageListed(project, s) ==
    /\ project["Development Stage"] # NaN
    /\ project["Development Stage"][1] \in Range(scenarios[s].stages)

\* The rows of the Scenario Dataset for scenario s and a project.
MembershipRows(s, project) ==
    {k \in DOMAIN scenario_data :
        /\ scenario_data[k]["Scenario"] = scenarios[s].name
        /\ scenario_data[k]["Project ID"] = project["Project ID"]}

\* The position in the document of the scenario of row k.
ScenarioPosition(k) ==
    CHOOSE s \in DOMAIN scenarios : scenarios[s].name = scenario_data[k]["Scenario"]

\* C11: the Scenario Dataset has a row for scenario S and project P of the
\* Updated table iff P reports a value in some time-step column and P's
\* stage is in S's list; the row is the only one, a project listed in
\* several scenarios has a row in each, a missing time-step value is 0 in
\* the row, and the rows follow the declared order of the scenarios.
C11_ScenarioMembership ==
    pc = "scenarios_created" =>
        /\ \A s \in DOMAIN scenarios : \A i \in DOMAIN sp_dataset_updated :
              LET project == sp_dataset_updated[i]
                  rows    == MembershipRows(s, project)
              IN  /\ Cardinality(rows) =
                        IF ReportsInTimeSteps(project) /\ StageListed(project, s)
                        THEN 1 ELSE 0
                  /\ \A k \in rows : \A y \in Range(production_time_steps) :
                        project["Production"][y] = NaN => scenario_data[k]["Years"][y] = 0
        /\ \A k \in DOMAIN scenario_data :
              /\ \E s \in DOMAIN scenarios : scenarios[s].name = scenario_data[k]["Scenario"]
              /\ \E i \in DOMAIN sp_dataset_updated :
                    sp_dataset_updated[i]["Project ID"] = scenario_data[k]["Project ID"]
        /\ \A k1, k2 \in DOMAIN scenario_data :
              k1 < k2 => ScenarioPosition(k1) <= ScenarioPosition(k2)

\* One project has a row in each of two scenarios, with a missing time-step
\* value filled with 0, while the other reports only in the year that is not
\* a time step and has no row.
C11_Witness ==
    /\ pc = "scenarios_created"
    /\ Len(scenarios) = 2
    /\ \E i, j \in DOMAIN sp_dataset_updated :
          /\ MembershipRows(1, sp_dataset_updated[i]) # {}
          /\ MembershipRows(2, sp_dataset_updated[i]) # {}
          /\ sp_dataset_updated[i]["Production"][1] = NaN
          /\ sp_dataset_updated[j]["Production"][3] # NaN
          /\ ~ReportsInTimeSteps(sp_dataset_updated[j])
          /\ \A s \in DOMAIN scenarios : MembershipRows(s, sp_dataset_updated[j]) = {}


(***************************************************************************)
(* get_production_time_steps                                               *)
(***************************************************************************)
\* ---- the first step of the constructor for every timeframe with
\* start <= end <= MaxYear and a step of 1..MaxStep, over one project.
MaxYear == 6

MaxStep == 4

Timeframes ==
    {<<start, end, step>> : start \in 1..MaxYear, end \in 1..MaxYear, step \in 1..MaxStep}

InitTimeSteps ==
    /\ \E tf \in {t \in Timeframes : t[1] <= t[2]} :
       \E v \in ProductionCells :
          BuilderStart(tf,
              << ProjectRow(101, Some("Mine A"), Some("Chile"), Some(Brine), Some(<<"a">>),
                            Some(<<"a">>), Some("Operating"), Some(<<"M">>), NaN,
                            [y \in tf[1]..tf[2] |-> v]) >>)
    /\ specifics = << >>
    /\ exclude = << >>
    /\ data_gaps = << >>
    /\ scenarios \in {d \in ScenarioDocuments : Len(d) = 1}
    /\ harmonize_data = << >>

NextTimeSteps == GetProductionTimeSteps

SpecTimeSteps == InitTimeSteps /\ [][NextTimeSteps]_vars

\* The years of the timeframe that are divisible by the step.
StepYears == {y \in timeframe[1]..timeframe[2] : y % timeframe[3] = 0}

\* The start year, then the years divisible by the step in ascending order,
\* no year twice.
StartThenStepYears == <<timeframe[1]>> \o SeqOfSet(StepYears \ {timeframe[1]})

\* C12 as stated: for every timeframe the computation completes and
\* production_time_steps lists the start year first, followed by exactly the
\* years of the timeframe divisible by the step in ascending order, with no
\* year listed twice.
C12_TimeStepsListed ==
    pc # "construct" =>
        /\ pc = "time_steps"
        /\ production_time_steps = StartThenStepYears

\* C12 for the timeframes that hold a year divisible by the step: the
\* statement holds there.
C12_WithStepYear ==
    (pc # "construct" /\ StepYears # {}) =>
        /\ pc = "time_steps"
        /\ production_time_steps = StartThenStepYears

\* A timeframe without a year divisible by the step: the constructor stops
\* with IndexError and no time steps.
C12_NoStepYearFails ==
    /\ pc = "failed"
    /\ error = "IndexError"
    /\ timeframe = <<1, 2, 3>>
    /\ production_time_steps = << >>


(***************************************************************************)
(* The processing report                                                   *)
(***************************************************************************)
\* The projects of the Updated table with a value in some time-step column,
\* and those with none.
WithProduction ==
    {sp_dataset_updated[i]["Project ID"] :
        i \in {j \in DOMAIN sp_dataset_updated : ReportsInTimeSteps(sp_dataset_updated[j])}}

WithoutProduction ==
    {sp_dataset_updated[i]["Project ID"] :
        i \in {j \in DOMAIN sp_dataset_updated : ~ReportsInTimeSteps(sp_dataset_updated[j])}}

\* What C13 states of the report.
ReportCountsProduction ==
    /\ processing_report["Number projects discarded due to lack of production"]
          = Cardinality(WithoutProduction)
    /\ processing_report["Number projects in scenarios"] = Cardinality(WithProduction)
    /\ processing_report["Number projects discarded due to lack of production"]
          + processing_report["Number projects in scenarios"]
          = processing_report["Number projects in updated dataset"]
    /\ processing_report["Number projects in updated dataset"] = Len(sp_dataset_updated)

\* C13 as stated: the reported number of projects discarded for lack of
\* production is the number of projects of the Updated table without a value
\* in any time-step column, the reported number of projects in scenarios is
\* the number of projects that report in some time step, and the two add up
\* to the number of projects.
C13_ReportCounts ==
    pc = "reported" => ReportCountsProduction

\* Every project that reports in a time step has its stage listed in some
\* scenario.
ReportingStagesListed ==
    \A i \in DOMAIN sp_dataset_updated :
       ReportsInTimeSteps(sp_dataset_updated[i])
          => \E s \in DOMAIN scenarios : StageListed(sp_dataset_updated[i], s)

\* C13 for the runs in which every reporting project's stage is listed in
\* some scenario: the statement holds there.
C13_StagesListed ==
    (pc = "reported" /\ ReportingStagesListed) => ReportCountsProduction

\* A report that counts as discarded for lack of production a project that
\* reports in a time step and whose stage no scenario lists.
C13_StageUnlistedCountedDiscarded ==
    /\ pc = "reported"
    /\ WithoutProduction = {}
    /\ ~ReportingStagesListed
    /\ processing_report["Number projects discarded due to lack of production"] = 1

====
